---- MODULE Spec2Model ----
(***************************************************************************)
(* Tide monitoring service: the alert lifecycle of TideMonitoringService   *)
(* (creation, deduplication, expiry sweep, retention pruning), the live    *)
(* risk assessment that drives it and the reads that report active alerts. *)
(*                                                                         *)
(* Time is an integer count of clock ticks, TicksPerSecond ticks to the    *)
(* second (datetime has microsecond resolution; a tick is the smallest     *)
(* step the wall clock is seen to make).  Heights are in centimetres, wind *)
(* speeds in hundredths of a metre per second before formatting and in     *)
(* tenths after it.  TideAlert instances are objects: alerts is the store  *)
(* of every instance ever constructed, and active_alerts, like the Python  *)
(* list, holds references (indices) into it.                               *)
(***************************************************************************)
EXTENDS Integers, Sequences, FiniteSets, TLC

\* ------------------------------------------------------------------ bounds
TicksPerSecond == 2
MaxAlerts == 3

\* --------------------------------------------------------------- constants
high_tide_threshold == 300
storm_surge_threshold == 400
ForecastDays == 7
LookaheadHours == 6
RetentionHours == 24

Second == TicksPerSecond
Hour == 3600 * Second

\* Requests arrive on the hour, ArrivalHours after the first one (the last
\* of them after the end of a seven-day window); inside a call the clock
\* is seen to move by less than a second.
ArrivalHours == {0, 3, 24, 170}
MaxDrift == TicksPerSecond - 1
Instants == {h * Hour + s : h \in ArrivalHours, s \in 0..MaxDrift}

Null == 0 - 1
NoPrediction == [timestamp |-> Null, height_meters |-> Null,
                 weather_info |-> [condition |-> "none", wind_speed |-> Null]]

Threads == {1, 2}

VARIABLES
  now,            \* the wall clock, datetime.now()
  tide_history,   \* self.tide_history: the cached forecast window, held as
                  \* the predict_tides call that built it (see Window)
  alerts,         \* every TideAlert object constructed so far
  active_alerts,  \* self.active_alerts: references into alerts
  last,           \* what the last completed operation observed and returned
  pc,             \* per request thread: the statement it is at
  frame           \* per request thread: its local variables

vars == <<now, tide_history, alerts, active_alerts, last, pc, frame>>

Abs(x) == IF x < 0 THEN -x ELSE x

Range(s) == {s[i] : i \in DOMAIN s}

\* ------------------------------------------------------- forecast engine
\* What a forecast run hands to the service: a height per hour (the
\* service takes any height of the predictor's range, which the clamp
\* bounds to [0.1, 5.0] m; the heights of the default calculator are
\* computed in the prediction engine below) and the samples the weather
\* simulator draws.  A profile is a cycle that repeats over the window.
Sample(c, w) == [condition |-> c, wind_speed |-> w]

Profiles ==
  { [heights |-> <<300, 400>>,      weather |-> <<Sample("cloudy", 1004)>>],
    [heights |-> <<200, 350>>,      weather |-> <<Sample("rainy", 1206)>>],
    [heights |-> <<420, 350>>,      weather |-> <<Sample("rainy", 1496)>>] }

\* f"{weather.wind_speed:.1f} m/s": hundredths rounded to tenths.
FormatWind(w) == (w + 5) \div 10

\* float(weather_info['wind_speed'].split()[0]): the tenths written.
ParseWind(s) == s

Cyc(s, i) == s[(i % Len(s)) + 1]

\* A variant whose loop counts the hours from 1.
predict_tides_from_next_hour(start_date, days, p) ==
  [k \in 1..(days * 24) |->
     [timestamp     |-> start_date + k * Hour,
      height_meters |-> Cyc(p.heights, k - 1),
      weather_info  |-> [condition  |-> Cyc(p.weather, k - 1).condition,
                         wind_speed |-> FormatWind(Cyc(p.weather, k - 1).wind_speed)]]]

\* TidePredictor.predict_tides(start_date, days): one prediction per hour.
predict_tides(start_date, days, p) ==
  [k \in 1..(days * 24) |->
     [timestamp     |-> start_date + (k - 1) * Hour,
      height_meters |-> Cyc(p.heights, k - 1),
      weather_info  |-> [condition  |-> Cyc(p.weather, k - 1).condition,
                         wind_speed |-> FormatWind(Cyc(p.weather, k - 1).wind_speed)]]]

\* self.tide_history is only ever replaced wholesale by the list one
\* predict_tides call returns, so the state keeps the arguments of that
\* call; Window is the list itself.  The constructor's empty list is the
\* window of zero days.
NoProfile == [heights |-> <<0>>, weather |-> <<Sample("none", 0)>>]
EmptyHistory == [start_date |-> 0, days |-> 0, profile |-> NoProfile]
Window(h) == predict_tides(h.start_date, h.days, h.profile)

\* The outcome of a predict_tides call that raises.
Failure == [heights |-> << >>, weather |-> << >>]

\* _update_tide_predictions, as called by the readers: only when the
\* window is empty; start_date is a fresh clock read.  An exception of
\* predict_tides is logged and the window is left as it was.
update_tide_predictions(h, start_date, p) ==
  IF h.days * 24 = 0 /\ p # Failure
  THEN [start_date |-> start_date, days |-> ForecastDays, profile |-> p]
  ELSE h

\* min(self.tide_history, key=|timestamp - time|) over the entries lo..hi:
\* the index of the first entry at the least distance (computed by halves;
\* a tie keeps the lower index, as min does).
RECURSIVE Closest(_, _, _, _)
Closest(hist, time, lo, hi) ==
  IF lo = hi THEN lo
  ELSE LET mid == (lo + hi) \div 2
           a   == Closest(hist, time, lo, mid)
           b   == Closest(hist, time, mid + 1, hi)
       IN  IF Abs(hist[b].timestamp - time) < Abs(hist[a].timestamp - time)
           THEN b ELSE a

\* _get_current_tide_prediction after the window is populated.
get_current_tide_prediction(hist, time) ==
  IF Len(hist) = 0 THEN NoPrediction
  ELSE LET c == hist[Closest(hist, time, 1, Len(hist))]
       IN  IF Abs(c.timestamp - time) < Hour THEN c ELSE NoPrediction

get_forecast_range(hist, start_time, hours) ==
  SelectSeq(hist, LAMBDA q : start_time <= q.timestamp
                             /\ q.timestamp <= start_time + hours * Hour)

\* ------------------------------------------------------------ live risk
\* A variant of the level thresholds with strict comparisons.
RiskLevelStrict(score) ==
  IF score > 8 THEN "CRITICAL"
  ELSE IF score > 6 THEN "HIGH"
  ELSE IF score > 4 THEN "MEDIUM"
  ELSE IF score > 2 THEN "LOW"
  ELSE "MINIMAL"

RiskLevel(score) ==
  IF score >= 8 THEN "CRITICAL"
  ELSE IF score >= 6 THEN "HIGH"
  ELSE IF score >= 4 THEN "MEDIUM"
  ELSE IF score >= 2 THEN "LOW"
  ELSE "MINIMAL"

HeightScore(h) ==
  IF h > storm_surge_threshold THEN 5
  ELSE IF h > high_tide_threshold THEN 3 ELSE 0

WeatherScore(w) ==
  IF w.condition = "stormy" THEN 4
  ELSE IF w.condition = "rainy" THEN 2 ELSE 0

WindScore(w) ==
  IF ParseWind(w.wind_speed) > 150 THEN 3
  ELSE IF ParseWind(w.wind_speed) > 100 THEN 2 ELSE 0

RECURSIVE ForecastScore(_, _)
ForecastScore(forecast, k) ==
  IF k > Len(forecast) \/ k > 6 THEN 0
  ELSE (IF forecast[k].height_meters > high_tide_threshold THEN 1 ELSE 0)
       + ForecastScore(forecast, k + 1)

assess_current_risk(current, forecast) ==
  LET score == (IF current = NoPrediction THEN 0
                ELSE HeightScore(current.height_meters)
                     + WeatherScore(current.weather_info)
                     + WindScore(current.weather_info))
               + ForecastScore(forecast, 1)
  IN  [level |-> RiskLevel(score), score |-> score]

\* ---------------------------------------------------------------- alerts
\* The severity table of generate_tide_alert.
ExpiresIn(severity) ==
  IF severity = "CRITICAL" THEN 2 * Hour
  ELSE IF severity = "HIGH" THEN 4 * Hour
  ELSE IF severity = "MEDIUM" THEN 6 * Hour
  ELSE 12 * Hour

\* f"tide_{alert_type}_{now:%Y%m%d_%H%M%S}": the type and the clock read
\* truncated to whole seconds.
AlertId(alert_type, t) == <<"tide", alert_type, t \div Second>>

\* The clock reads of one call: the model lets the clock be seen to move
\* inside a call only between the timestamp read (line 332) and the
\* expires_at read (line 339) of generate_tide_alert, by up to MaxDrift
\* ticks; the other reads of the call see the tick the call began at or the
\* tick the last generate_tide_alert ended at.
Drifts == 0..MaxDrift

\* A variant of generate_tide_alert that subtracts the severity duration.
generate_tide_alert_subtracting(m, alert_type, severity, height, d) ==
  LET alert == [alert_id    |-> AlertId(alert_type, m.clock),
                timestamp   |-> m.clock,
                alert_type  |-> alert_type,
                severity    |-> severity,
                tide_height |-> height,
                expires_at  |-> (m.clock + d) - ExpiresIn(severity),
                is_active   |-> TRUE]
  IN  [m EXCEPT !.clock = m.clock + d,
                !.alerts = Append(m.alerts, alert),
                !.active_alerts = Append(m.active_alerts, Len(m.alerts) + 1)]

\* generate_tide_alert on the service state m = [clock, alerts,
\* active_alerts, new_alerts]: three clock reads (alert_id; timestamp;
\* expires_at), construction of the TideAlert and the append to
\* self.active_alerts.
generate_tide_alert(m, alert_type, severity, height, d) ==
  LET tId  == m.clock
      tTs  == m.clock
      tExp == m.clock + d
      alert == [alert_id    |-> AlertId(alert_type, tId),
                timestamp   |-> tTs,
                alert_type  |-> alert_type,
                severity    |-> severity,
                tide_height |-> height,
                expires_at  |-> tExp + ExpiresIn(severity),
                is_active   |-> TRUE]
  IN  [m EXCEPT !.clock = tExp,
                !.alerts = Append(m.alerts, alert),
                !.active_alerts = Append(m.active_alerts, Len(m.alerts) + 1)]

\* Python truthiness of current_tide['height_meters'] (None and 0.0 are false).
Truthy(h) == h # Null /\ h # 0

\* A variant of the tide-height triggers with two independent tests
\* (if / if) in place of if / elif.
TideHeightTriggersBoth(height) ==
  IF Truthy(height)
  THEN (IF height > storm_surge_threshold
        THEN << <<"STORM_SURGE", "CRITICAL">> >> ELSE << >>)
       \o (IF height > high_tide_threshold
           THEN << <<"HIGH_TIDE", "HIGH">> >> ELSE << >>)
  ELSE << >>

\* Lines 350-374: the tide-height triggers of one check cycle, as the
\* (alert_type, severity) pairs to generate, in order.
TideHeightTriggers(height) ==
  IF Truthy(height)
  THEN IF height > storm_surge_threshold
       THEN << <<"STORM_SURGE", "CRITICAL">> >>
       ELSE IF height > high_tide_threshold
            THEN << <<"HIGH_TIDE", "HIGH">> >>
            ELSE << >>
  ELSE << >>

\* A variant of the deduplication test that only sees CRITICAL alerts.
existing_critical_risk_alerts(heap, al) ==
  SelectSeq(al, LAMBDA r : heap[r].alert_type = "COASTAL_RISK" /\ heap[r].is_active
                           /\ heap[r].severity = "CRITICAL")

\* Lines 380-381: the references of the alerts the deduplication test sees.
existing_risk_alerts(heap, al) ==
  SelectSeq(al, LAMBDA r : heap[r].alert_type = "COASTAL_RISK" /\ heap[r].is_active)

\* A variant of the expiry flip that also restamps the alerts it expires.
expiry_flip_restamping(heap, al, t) ==
  [r \in DOMAIN heap |->
     IF r \in Range(al) /\ heap[r].expires_at < t
     THEN [heap[r] EXCEPT !.is_active = FALSE, !.timestamp = t]
     ELSE heap[r]]

\* A variant of the expiry flip that toggles the flag of an expired alert.
expiry_toggle(heap, al, t) ==
  [r \in DOMAIN heap |->
     IF r \in Range(al) /\ heap[r].expires_at < t
     THEN [heap[r] EXCEPT !.is_active = ~heap[r].is_active]
     ELSE heap[r]]

\* Lines 401-404: the expiry flip, on the objects the list refers to.
expiry_flip(heap, al, t) ==
  [r \in DOMAIN heap |->
     IF r \in Range(al) /\ heap[r].expires_at < t
     THEN [heap[r] EXCEPT !.is_active = FALSE]
     ELSE heap[r]]

\* Lines 407-409: the filtered list that replaces self.active_alerts.
retained(heap, al, t) ==
  SelectSeq(al, LAMBDA r : heap[r].is_active
                           \/ heap[r].timestamp > t - RetentionHours * Hour)

\* _cleanup_expired_alerts at clock read t.
cleanup_expired_alerts(m, t) ==
  LET flipped == expiry_flip(m.alerts, m.active_alerts, t)
  IN  [m EXCEPT !.clock = t,
                !.alerts = flipped,
                !.active_alerts = retained(flipped, m.active_alerts, t)]

\* len([a for a in self.active_alerts if a.is_active]) and its like: the
\* references a read of the active alerts reports.
flagged_active(heap, al) == SelectSeq(al, LAMBDA r : heap[r].is_active)

\* get_current_tide_status at clock read t: hist is the window
\* _get_current_tide_prediction reads and hist6 the window
\* _get_forecast_range reads (each of them first tries to populate an
\* empty window).
get_current_tide_status(heap, al, hist, hist6, t) ==
  LET current == get_current_tide_prediction(hist, t)
      next_6  == get_forecast_range(hist6, t, LookaheadHours)
      risk    == assess_current_risk(current, next_6)
  IN  [timestamp      |-> t,
       height_meters  |-> current.height_meters,
       lookahead      |-> Len(next_6),
       level          |-> risk.level,
       score          |-> risk.score,
       active_alerts  |-> Len(flagged_active(heap, al)),
       counted        |-> flagged_active(heap, al)]

\* A variant of the collection step that forgets new_alerts.append.
generate_without_collect(m, alert_type, severity, height, d) ==
  generate_tide_alert(m, alert_type, severity, height, d)

\* new_alerts.append(alert) after a generate_tide_alert call.
generate_and_collect(m, alert_type, severity, height, d) ==
  LET g == generate_tide_alert(m, alert_type, severity, height, d)
  IN  [g EXCEPT !.new_alerts = Append(m.new_alerts, Len(g.alerts))]

RECURSIVE generate_triggers(_, _, _, _)
generate_triggers(m, triggers, height, d) ==
  IF triggers = << >> THEN m
  ELSE generate_triggers(
         generate_and_collect(m, triggers[1][1], triggers[1][2], height, d),
         Tail(triggers), height, d)

\* Lines 384-392: the COASTAL_RISK alert of a cycle ("height_meters or 0").
risk_alert(m, status, d) ==
  generate_and_collect(m, "COASTAL_RISK", status.level,
                       IF Truthy(status.height_meters) THEN status.height_meters ELSE 0,
                       d)

\* Lines 376-392: the risk-level branch of a check cycle.
risk_alert_step(m, status, d) ==
  IF status.level \in {"HIGH", "CRITICAL"}
     /\ existing_risk_alerts(m.alerts, m.active_alerts) = << >>
  THEN risk_alert(m, status, d)
  ELSE m

\* A variant that skips a tide-height trigger while an active alert of its
\* type exists.
check_and_generate_alerts_deduplicating(m, status, d) ==
  LET fresh == SelectSeq(TideHeightTriggers(status.height_meters),
                         LAMBDA g : \A i \in DOMAIN m.active_alerts :
                                      ~(/\ m.alerts[m.active_alerts[i]].alert_type = g[1]
                                        /\ m.alerts[m.active_alerts[i]].is_active))
      m1    == generate_triggers([m EXCEPT !.new_alerts = << >>], fresh,
                                 status.height_meters, d)
      m2    == risk_alert_step(m1, status, d)
  IN  [m |-> cleanup_expired_alerts(m2, m2.clock), dedup_at |-> m1.clock]

\* check_and_generate_alerts after its status read: the tide-height
\* triggers, the risk branch, then the sweep.
check_and_generate_alerts(m, status, d) ==
  LET m1 == generate_triggers([m EXCEPT !.new_alerts = << >>],
                              TideHeightTriggers(status.height_meters),
                              status.height_meters, d)
      m2 == risk_alert_step(m1, status, d)
  IN  [m |-> cleanup_expired_alerts(m2, m2.clock), dedup_at |-> m1.clock]

\* ------------------------------------------------------------ the state
Machine == [clock |-> now, alerts |-> alerts, active_alerts |-> active_alerts,
            new_alerts |-> << >>]

\* What an operation saw and gave back: the clock read it began at, the
\* status it computed, the live list and the number of TideAlert objects
\* before it, the clock at the deduplication test, the list it returned and
\* the alerts it reported as active.
Observed(op, at, status, pre, dedup_at, returned, listed) ==
  [op |-> op, at |-> at, height |-> status.height_meters, level |-> status.level,
   lookahead |-> status.lookahead, pre |-> pre, heap |-> Len(alerts), dedup_at |-> dedup_at,
   returned |-> returned, listed |-> listed]

NoStatus == [height_meters |-> Null, level |-> "none", lookahead |-> 0]

IdleFrame == [height_meters |-> Null, level |-> "none", new_alerts |-> << >>,
              existing |-> << >>, filtered |-> << >>, returned |-> << >>]

Init ==
  /\ now = 0
  /\ tide_history = EmptyHistory
  /\ alerts = << >>
  /\ active_alerts = << >>
  /\ last = Observed("init", 0, NoStatus, << >>, 0, << >>, << >>)
  /\ pc = [t \in Threads |-> "idle"]
  /\ frame = [t \in Threads |-> IdleFrame]

ClockOk(t) == t \in Instants

\* A population attempt draws a forecast run or fails; reads of a populated
\* window reuse it.
ProfilesFor(h) == IF h.days = 0 THEN Profiles \cup {Failure} ELSE {h.profile}

\* The wall clock advances between requests.  Time is counted from the
\* request that populates the window: idle time before it only shifts
\* every timestamp.  What the last operation observed is of no interest
\* once time has passed.
Tick ==
  /\ tide_history.days # 0
  /\ \E h \in ArrivalHours : h * Hour > now /\ now' = h * Hour
  /\ last' = Observed("tick", now', NoStatus, << >>, now', << >>, << >>)
  /\ UNCHANGED <<tide_history, alerts, active_alerts, pc, frame>>

\* The status read of a request at clock read t: the window after the
\* population attempts of _get_current_tide_prediction (outcome p) and of
\* _get_forecast_range (outcome q), and the status computed over them.
StatusReads(t, p, q) ==
  { [hist |-> h[2],
     status |-> get_current_tide_status(alerts, active_alerts,
                                        Window(h[1]), Window(h[2]), t)] :
      h \in { <<h1, update_tide_predictions(h1, t, q)>> :
                h1 \in {update_tide_predictions(tide_history, t, p)} } }

\* POST /api/v1/tide/alerts/check: one whole check cycle.
CheckAndGenerateAlerts ==
  /\ \E p, q \in ProfilesFor(tide_history) :
       \E s \in StatusReads(now, p, q), d \in Drifts :
         \E r \in {check_and_generate_alerts(Machine,
                                             s.status, d)} :
           /\ Len(r.m.alerts) <= MaxAlerts
           /\ ClockOk(r.m.clock)
           /\ now' = r.m.clock
           /\ tide_history' = s.hist
           /\ alerts' = r.m.alerts
           /\ active_alerts' = r.m.active_alerts
           /\ last' = Observed("check", now, s.status, active_alerts, r.dedup_at,
                               r.m.new_alerts, s.status.counted)
  /\ UNCHANGED <<pc, frame>>

\* GET /api/v1/tide/status.
GetCurrentTideStatus ==
  /\ \E p, q \in ProfilesFor(tide_history) :
       \E s \in StatusReads(now, p, q) :
         /\ now' = now
         /\ tide_history' = s.hist
         /\ last' = Observed("status", now, s.status, active_alerts, now,
                             << >>, s.status.counted)
  /\ UNCHANGED <<alerts, active_alerts, pc, frame>>

\* GET /api/v1/tide/alerts with its optional type and severity filters
\* (an absent filter is the empty string, which Python treats as false).
get_alerts(heap, al, alert_type, severity) ==
  LET byType == IF alert_type # ""
                THEN SelectSeq(al, LAMBDA r : heap[r].alert_type = alert_type) ELSE al
      bySev  == IF severity # ""
                THEN SelectSeq(byType, LAMBDA r : heap[r].severity = severity) ELSE byType
  IN  SelectSeq(bySev, LAMBDA r : heap[r].is_active)

AlertFilters == { <<"", "">>, <<"COASTAL_RISK", "CRITICAL">> }

GetAlerts ==
  /\ \E f \in AlertFilters :
       last' = Observed("alerts", now, NoStatus, active_alerts, now, << >>,
                        get_alerts(alerts, active_alerts, f[1], f[2]))
  /\ UNCHANGED <<now, tide_history, alerts, active_alerts, pc, frame>>

\* The hour of the day at which the service's first request arrives.
StartHourOfDay == 10

Day == 24 * Hour

\* pred.timestamp.date()
DateOf(t) == (t + StartHourOfDay * Hour) \div Day

\* _get_daily_summaries: one summary per calendar date of the window, in
\* order, here the date it is for.
get_daily_summaries(hist) ==
  LET dates == {DateOf(hist[k].timestamp) : k \in DOMAIN hist}
  IN  [i \in 1..Cardinality(dates) |->
         CHOOSE d \in dates : Cardinality({e \in dates : e < d}) = i - 1]

\* get_tide_forecast(days) after its population attempt, hist being the
\* window it then finds: the dictionary it returns.
get_tide_forecast(hist, days) ==
  IF Len(hist) = 0
  THEN [error |-> TRUE, forecast_period |-> days, daily_summaries |-> << >>]
  ELSE [error |-> FALSE, forecast_period |-> days,
        daily_summaries |-> get_daily_summaries(hist)]

\* days = min(max(days, 1), 14) of the forecast endpoint.
ClampDays(days) ==
  LET atLeast == IF days > 1 THEN days ELSE 1
  IN  IF atLeast < 14 THEN atLeast ELSE 14

\* The days query parameters the forecast endpoint is called with.
RequestedDays == {1, 7, 15}

\* The forecast read of a request at clock read t: the window after the
\* population attempt (outcome p) and the reply computed over it.
ForecastReads(t, p, days) ==
  { [hist |-> update_tide_predictions(tide_history, t, p),
     reply |-> get_tide_forecast(w, days)] :
      w \in {Window(update_tide_predictions(tide_history, t, p))} }

\* GET /api/v1/tide/forecast?days=n.
GetTideForecast ==
  /\ \E n \in RequestedDays, p \in ProfilesFor(tide_history) :
       \E f \in ForecastReads(now, p, ClampDays(n)) :
         /\ tide_history' = f.hist
         /\ last' = [op |-> "forecast", at |-> now, requested |-> n,
                     error |-> f.reply.error,
                     forecast_period |-> f.reply.forecast_period,
                     daily_summaries |-> f.reply.daily_summaries,
                     pre |-> active_alerts, heap |-> Len(alerts)]
  /\ UNCHANGED <<now, alerts, active_alerts, pc, frame>>

\* datetime.isoformat(): the whole seconds and the fraction of a second.
isoformat(t) == [seconds |-> t \div Second, fraction |-> t % Second]

\* convert_datetime(asdict(alert)) as json.dump writes it: the strings and
\* the flag as they are, the two instants as text.
serialized(alert) ==
  [alert_id    |-> alert.alert_id,
   alert_type  |-> alert.alert_type,
   severity    |-> alert.severity,
   tide_height |-> alert.tide_height,
   timestamp   |-> isoformat(alert.timestamp),
   expires_at  |-> isoformat(alert.expires_at),
   is_active   |-> alert.is_active]

\* A variant of the active_alerts section without the is_active filter.
exported_alerts_unfiltered(heap, al) ==
  [i \in DOMAIN al |-> serialized(heap[al[i]])]

\* Line 574: [asdict(alert) for alert in self.active_alerts if
\* alert.is_active], as written to the document.
exported_alerts(heap, al) ==
  [i \in DOMAIN flagged_active(heap, al) |->
     serialized(heap[flagged_active(heap, al)[i]])]

\* What an export saw and gave back, with the document read back from the
\* file it wrote.
Exported(observed, document) ==
  [op |-> observed.op, at |-> observed.at, height |-> observed.height,
   level |-> observed.level, lookahead |-> observed.lookahead,
   pre |-> observed.pre, heap |-> observed.heap,
   dedup_at |-> observed.dedup_at, returned |-> observed.returned,
   listed |-> observed.listed, document |-> document]

\* export_data('json'): the status read, the forecast read (a further
\* population attempt on a window still empty) and the active_alerts
\* section of the written document.
ExportData ==
  /\ \E p, q, r \in ProfilesFor(tide_history) :
       \E s \in StatusReads(now, p, q) :
         /\ now' = now
         /\ tide_history' = update_tide_predictions(s.hist, now, r)
         /\ last' = Exported(Observed("export", now, s.status, active_alerts, now,
                                      << >>, flagged_active(alerts, active_alerts)),
                             [active_alerts |-> exported_alerts(alerts, active_alerts)])
  /\ UNCHANGED <<alerts, active_alerts, pc, frame>>

Next ==
  \/ Tick
  \/ CheckAndGenerateAlerts
  \/ GetCurrentTideStatus
  \/ GetAlerts
  \/ GetTideForecast
  \/ ExportData

Spec == Init /\ [][Next]_vars

\* The same service with the clock advancing and the check cycle called
\* again and again: time and again the last completed operation is a
\* check cycle.
SpecLive ==
  Init /\ [][Next]_vars /\ WF_vars(Tick) /\ []<>(last.op = "check")

\* -------------------------------------------------- concurrent requests
\* The HTTP layer serves requests on threads that share the one service
\* object and take no lock.  Each thread runs check_and_generate_alerts
\* statement by statement; no time passes while they interleave.
T_Status(t) ==
  /\ pc[t] = "idle"
  /\ Len(alerts) + 2 <= MaxAlerts
  /\ \E p, q \in ProfilesFor(tide_history) :
       \E s \in StatusReads(now, p, q) :
         /\ tide_history' = s.hist
         /\ frame' = [frame EXCEPT ![t] =
                        [IdleFrame EXCEPT !.height_meters = s.status.height_meters,
                                          !.level = s.status.level]]
  /\ pc' = [pc EXCEPT ![t] = "tide_height"]
  /\ UNCHANGED <<now, alerts, active_alerts, last>>

\* Lines 350-374.
T_TideHeight(t) ==
  /\ pc[t] = "tide_height"
  /\ \E m \in {generate_triggers(Machine, TideHeightTriggers(frame[t].height_meters),
                                 frame[t].height_meters, 0)} :
       /\ alerts' = m.alerts
       /\ active_alerts' = m.active_alerts
       /\ frame' = [frame EXCEPT ![t].new_alerts = m.new_alerts]
  /\ pc' = [pc EXCEPT ![t] = "risk_test"]
  /\ UNCHANGED <<now, tide_history, last>>

\* Lines 377-381: the level test and the list of existing risk alerts.
T_RiskTest(t) ==
  /\ pc[t] = "risk_test"
  /\ IF frame[t].level \in {"HIGH", "CRITICAL"}
     THEN /\ frame' = [frame EXCEPT ![t].existing =
                         existing_risk_alerts(alerts, active_alerts)]
          /\ pc' = [pc EXCEPT ![t] = "risk_create"]
     ELSE /\ frame' = frame
          /\ pc' = [pc EXCEPT ![t] = "sweep_flip"]
  /\ UNCHANGED <<now, tide_history, alerts, active_alerts, last>>

\* Lines 383-392.
T_RiskCreate(t) ==
  /\ pc[t] = "risk_create"
  /\ IF frame[t].existing = << >>
     THEN \E m \in {risk_alert([Machine EXCEPT !.new_alerts = frame[t].new_alerts],
                               frame[t], 0)} :
            /\ alerts' = m.alerts
            /\ active_alerts' = m.active_alerts
            /\ frame' = [frame EXCEPT ![t].new_alerts = m.new_alerts]
     ELSE UNCHANGED <<alerts, active_alerts, frame>>
  /\ pc' = [pc EXCEPT ![t] = "sweep_flip"]
  /\ UNCHANGED <<now, tide_history, last>>

\* Lines 401-404.
T_SweepFlip(t) ==
  /\ pc[t] = "sweep_flip"
  /\ alerts' = expiry_flip(alerts, active_alerts, now)
  /\ pc' = [pc EXCEPT ![t] = "sweep_filter"]
  /\ UNCHANGED <<now, tide_history, active_alerts, last, frame>>

\* Lines 407-409, right-hand side: the filtered list is built.
T_SweepFilter(t) ==
  /\ pc[t] = "sweep_filter"
  /\ frame' = [frame EXCEPT ![t].filtered = retained(alerts, active_alerts, now)]
  /\ pc' = [pc EXCEPT ![t] = "sweep_store"]
  /\ UNCHANGED <<now, tide_history, alerts, active_alerts, last>>

\* Line 408, the assignment to self.active_alerts, and the return.
T_SweepStore(t) ==
  /\ pc[t] = "sweep_store"
  /\ active_alerts' = frame[t].filtered
  /\ frame' = [frame EXCEPT ![t].returned = frame[t].new_alerts]
  /\ pc' = [pc EXCEPT ![t] = "idle"]
  /\ UNCHANGED <<now, tide_history, alerts, last>>

NextConc ==
  \E t \in Threads :
    \/ T_Status(t)
    \/ T_TideHeight(t)
    \/ T_RiskTest(t)
    \/ T_RiskCreate(t)
    \/ T_SweepFlip(t)
    \/ T_SweepFilter(t)
    \/ T_SweepStore(t)

SpecConc == Init /\ [][NextConc]_vars

\* ------------------------------------------- the live risk score alone
\* _assess_current_risk applied to any current prediction and lookahead,
\* not only those one forecast run yields.  A prediction is built as
\* predict_tides builds it; its hindu_factors say whether the calendar
\* mansion is one of the high-risk ones.
RiskHeights == {200, 300, 350, 400, 420}
RiskConditions == {"clear", "rainy", "stormy"}
RiskWinds == {500, 1004, 1206, 1500, 1800}

Prediction(height, condition, wind, mansion) ==
  [timestamp     |-> now,
   height_meters |-> height,
   weather_info  |-> [condition |-> condition, wind_speed |-> FormatWind(wind)],
   hindu_factors |-> [high_risk_mansion |-> mansion]]

RiskInputs ==
  {NoPrediction} \cup
  { Prediction(h, c, w, b) :
      h \in RiskHeights, c \in RiskConditions, w \in RiskWinds, b \in BOOLEAN }

\* A lookahead of 7 hourly predictions, the first n of them above the
\* high-tide threshold.
Lookahead(n) ==
  [k \in 1..7 |->
     Prediction(IF k <= n THEN 350 ELSE 200, "clear", 500, FALSE)]

AssessCurrentRisk ==
  /\ \E current \in RiskInputs, n \in 0..7 :
       \E risk \in {assess_current_risk(current, Lookahead(n))} :
         last' = [op |-> "risk", current |-> current, lookahead |-> n,
                  score |-> risk.score, level |-> risk.level]
  /\ UNCHANGED <<now, tide_history, alerts, active_alerts, pc, frame>>

NextRisk == AssessCurrentRisk

SpecRisk == Init /\ [][NextRisk]_vars

\* ------------------------------------------ the ad-hoc hazard assessment
\* TidePredictor.get_hazard_assessment over any list of predictions.  A
\* prediction carries the tide type, the weather strings and the calendar
\* mansion predict_tides gives it; weather_info may be absent.
HazardMansions ==
  {"Ashwini", "Krittika", "Ardra", "Pushya", "Magha", "Chitra", "Vishakha",
   "Jyeshtha", "Purva Ashadha", "Shravana", "Shatabhisha", "Purva Bhadrapada"}

NoWeather == [condition |-> "none", wind_speed |-> Null]

HazardPrediction(tide_type, height, weather, nakshatra) ==
  [height_meters |-> height,
   tide_type     |-> tide_type,
   weather_info  |-> IF weather = NoWeather THEN NoWeather
                     ELSE [condition  |-> weather.condition,
                           wind_speed |-> FormatWind(weather.wind_speed)],
   hindu_factors |-> [nakshatra |-> nakshatra]]

\* The score of one prediction (the body of the loop).
risk_score(pred) ==
    (IF pred.tide_type = "high" /\ pred.height_meters > 300 THEN 3
     ELSE IF pred.tide_type = "high" THEN 2 ELSE 0)
  + (IF pred.weather_info # NoWeather
     THEN (IF pred.weather_info.condition = "stormy" THEN 3
           ELSE IF pred.weather_info.condition = "rainy" THEN 1 ELSE 0)
          + (IF ParseWind(pred.weather_info.wind_speed) > 100 THEN 2 ELSE 0)
     ELSE 0)
  + (IF pred.hindu_factors.nakshatra \in HazardMansions THEN 1 ELSE 0)

\* The entry appended to a bucket.
risk_period(pred) ==
  [risk_score    |-> risk_score(pred),
   tide_height   |-> pred.height_meters,
   tide_type     |-> pred.tide_type,
   weather       |-> pred.weather_info,
   hindu_factors |-> pred.hindu_factors]

\* s[:5]
FirstFive(s) == SubSeq(s, 1, IF Len(s) < 5 THEN Len(s) ELSE 5)

\* A variant that counts the listed periods instead of the buckets.
get_hazard_assessment_listed(predictions) ==
  LET scored   == [k \in DOMAIN predictions |-> risk_period(predictions[k])]
      high     == FirstFive(SelectSeq(scored, LAMBDA e : e.risk_score >= 5))
      moderate == FirstFive(SelectSeq(scored, LAMBDA e : e.risk_score < 5
                                                        /\ e.risk_score >= 3))
  IN  [high_risk_count       |-> Len(high),
       moderate_risk_count   |-> Len(moderate),
       high_risk_periods     |-> high,
       moderate_risk_periods |-> moderate,
       overall_risk          |-> IF Len(high) > 0 THEN "HIGH"
                                 ELSE IF Len(moderate) > 0 THEN "MODERATE"
                                 ELSE "LOW"]

get_hazard_assessment(predictions) ==
  LET scored        == [k \in DOMAIN predictions |-> risk_period(predictions[k])]
      high_risk     == SelectSeq(scored, LAMBDA e : e.risk_score >= 5)
      moderate_risk == SelectSeq(scored, LAMBDA e : e.risk_score < 5
                                                    /\ e.risk_score >= 3)
  IN  [high_risk_count       |-> Len(high_risk),
       moderate_risk_count   |-> Len(moderate_risk),
       high_risk_periods     |-> FirstFive(high_risk),
       moderate_risk_periods |-> FirstFive(moderate_risk),
       overall_risk          |-> IF Len(high_risk) > 0 THEN "HIGH"
                                 ELSE IF Len(moderate_risk) > 0 THEN "MODERATE"
                                 ELSE "LOW"]

HazardWeather ==
  {NoWeather, Sample("rainy", 1004), Sample("stormy", 800),
   Sample("stormy", 1206)}

HazardInputs ==
  { HazardPrediction(t.tide_type, t.height, w, "Ashwini") :
      t \in {[tide_type |-> "high", height |-> 350],
             [tide_type |-> "high", height |-> 300],
             [tide_type |-> "rising", height |-> 350]},
      w \in HazardWeather }
  \cup
  { HazardPrediction("high", 350, w, "Rohini") : w \in HazardWeather }

\* A list of n predictions a followed by m predictions b.
Repeated(a, n, b, m) == [k \in 1..(n + m) |-> IF k <= n THEN a ELSE b]

GetHazardAssessment ==
  /\ \E a, b \in HazardInputs, n, m \in {0, 1, 6} :
       \E predictions \in {Repeated(a, n, b, m)} :
         last' = [op          |-> "hazard",
                  predictions |-> predictions,
                  assessment  |-> get_hazard_assessment(predictions)]
  /\ UNCHANGED <<now, tide_history, alerts, active_alerts, pc, frame>>

NextHazard == GetHazardAssessment

SpecHazard == Init /\ [][NextHazard]_vars

\* ------------------------------------------------- the prediction engine
\* HinduCalendar, TideCalculator and the loop body of predict_tides.
\* Heights are in units of 10^-8 m, so that the products of the
\* calculator are exact; a sine is the table of its values to four
\* decimals.
nakshatras ==
  <<"Ashwini", "Bharani", "Krittika", "Rohini", "Mrigashira", "Ardra",
    "Punarvasu", "Pushya", "Ashlesha", "Magha", "Purva Phalguni",
    "Uttara Phalguni", "Hasta", "Chitra", "Swati", "Vishakha", "Anuradha",
    "Jyeshtha", "Mula", "Purva Ashadha", "Uttara Ashadha", "Shravana",
    "Dhanishta", "Shatabhisha", "Purva Bhadrapada", "Uttara Bhadrapada",
    "Revati">>

tithis ==
  <<"Pratipada", "Dwitiya", "Tritiya", "Chaturthi", "Panchami", "Shashthi",
    "Saptami", "Ashtami", "Navami", "Dashami", "Ekadashi", "Dwadashi",
    "Trayodashi", "Chaturdashi", "Purnima", "Pratipada", "Dwitiya",
    "Tritiya", "Chaturthi", "Panchami", "Shashthi", "Saptami", "Ashtami",
    "Navami", "Dashami", "Ekadashi", "Dwadashi", "Trayodashi",
    "Chaturdashi", "Amavasya">>

\* A datetime, as far as the engine reads it.
Datetime(day, hour, minute) == [day |-> day, hour |-> hour, minute |-> minute]

get_current_hindu_date(date) ==
  LET tithi_num     == (date.day - 1) % 30
      nakshatra_num == (date.day - 1) % 27
  IN  [tithi     |-> tithis[tithi_num + 1],
       nakshatra |-> nakshatras[nakshatra_num + 1],
       paksha    |-> IF tithi_num < 15 THEN "Shukla" ELSE "Krishna",
       lunar_day |-> tithi_num + 1]

\* nakshatra_tides, the strength column.
nakshatra_strength(nakshatra) ==
  IF nakshatra \in {"Ashwini", "Krittika", "Ardra", "Pushya", "Magha",
                    "Uttara Phalguni", "Chitra", "Vishakha", "Jyeshtha",
                    "Purva Ashadha", "Shravana", "Shatabhisha",
                    "Uttara Bhadrapada"}
  THEN "strong"
  ELSE IF nakshatra \in {"Mrigashira", "Ashlesha", "Hasta", "Anuradha",
                         "Uttara Ashadha", "Purva Bhadrapada"}
  THEN "weak"
  ELSE "moderate"

\* tithi_amplification.get(tithi, 1.0), in tenths.
tithi_amplification(tithi) ==
  CASE tithi = "Purnima"     -> 15
    [] tithi = "Amavasya"    -> 14
    [] tithi = "Ekadashi"    -> 12
    [] tithi = "Ashtami"     -> 11
    [] tithi = "Chaturdashi" -> 13
    [] OTHER                 -> 10

get_tide_influence(hindu_date) ==
  [nakshatra_tide      |-> [strength |-> nakshatra_strength(hindu_date.nakshatra)],
   tithi_amplification |-> tithi_amplification(hindu_date.tithi)]

\* 10^4 * sin(2 * pi * hour_factor / 12.42) for hour_factor = 0, 0.5, ..., 23.5.
SinTide ==
  <<0, 2503, 4846, 6881, 8478, 9535, 9986, 9801,
    8992, 7611, 5746, 3515, 1060, 0 - 1462, 0 - 3891, 0 - 6073,
    0 - 7868, 0 - 9162, 0 - 9873, 0 - 9956, 0 - 9406, 0 - 8256, 0 - 6582, 0 - 4488,
    0 - 2109, 405, 2892, 5196, 7169, 8685, 9649, 9999,
    9713, 8808, 7343, 5410, 3133, 657, 0 - 1861, 0 - 4261,
    0 - 6389, 0 - 8111, 0 - 9317, 0 - 9929, 0 - 9910, 0 - 9260, 0 - 8021, 0 - 6272>>

\* 10^4 * sin(hour * 0.5) for hour = 0, ..., 23.
SinHour ==
  <<0, 4794, 8415, 9975, 9093, 5985, 1411, 0 - 3508,
    0 - 7568, 0 - 9775, 0 - 9589, 0 - 7055, 0 - 2794, 2151, 6570, 9380,
    9894, 7985, 4121, 0 - 752, 0 - 5440, 0 - 8797, 0 - 10000, 0 - 8755>>

Metre == 10^8

\* TideCalculator(base_height, tide_range), both in tenths of a metre.
TideCalculator(base_height, tide_range) ==
  [base_height |-> base_height, tide_range |-> tide_range]

DefaultCalculator == TideCalculator(15, 20)

\* strength_multiplier.get(strength, 1.0), in tenths.
strength_multiplier(strength) ==
  CASE strength = "strong"   -> 13
    [] strength = "moderate" -> 11
    [] strength = "weak"     -> 9
    [] OTHER                 -> 10

Max(a, b) == IF a > b THEN a ELSE b

Min(a, b) == IF a < b THEN a ELSE b

\* A variant without the final bounds.
calculate_tide_height_unbounded(calc, time, hindu_influence) ==
  LET astronomical_tide == calc.base_height * 10^5
                           + 50 * SinTide[2 * time.hour + time.minute \div 30 + 1]
      final_height      == astronomical_tide
                           * strength_multiplier(hindu_influence.nakshatra_tide.strength)
                           * hindu_influence.tithi_amplification
  IN  final_height + 1000 * SinHour[time.hour + 1]

\* A variant whose sine coefficient is half the configured tide_range.
calculate_tide_height_ranged(calc, time, hindu_influence) ==
  LET astronomical_tide == calc.base_height * 10^5
                           + 5 * calc.tide_range
                               * SinTide[2 * time.hour + time.minute \div 30 + 1]
      final_height      == astronomical_tide
                           * strength_multiplier(hindu_influence.nakshatra_tide.strength)
                           * hindu_influence.tithi_amplification
  IN  Max(Metre \div 10, Min(5 * Metre, final_height + 1000 * SinHour[time.hour + 1]))

\* calculate_tide_height: the astronomical tide is base_height plus 0.5
\* times the sine (10^-6 m), the product with the two tenths is in
\* 10^-8 m, and so is the term 0.1 * sin(hour * 0.5).
calculate_tide_height(calc, time, hindu_influence) ==
  LET astronomical_tide == calc.base_height * 10^5
                           + 50 * SinTide[2 * time.hour + time.minute \div 30 + 1]
      final_height      == astronomical_tide
                           * strength_multiplier(hindu_influence.nakshatra_tide.strength)
                           * hindu_influence.tithi_amplification
  IN  Max(Metre \div 10, Min(5 * Metre, final_height + 1000 * SinHour[time.hour + 1]))

determine_tide_type(calc, height, time) ==
  IF height > calc.base_height * (Metre \div 10) + Metre \div 2 THEN "high"
  ELSE IF height < calc.base_height * (Metre \div 10) - Metre \div 2 THEN "low"
  ELSE IF time.hour % 6 < 3 THEN "rising"
  ELSE "falling"

\* The height as the service model counts it, in centimetres rounded up:
\* a height is above a whole number of centimetres exactly when its
\* rounding up is.
Centimetres(height) == (height + (Metre \div 100 - 1)) \div (Metre \div 100)

DaysOfMonth == 1..31
TimesOfDay == {h * 60 + m : h \in 0..23, m \in {0, 30}}
At(day, minutes) == Datetime(day, minutes \div 60, minutes % 60)

\* One step of the loop of predict_tides, with the calculator
\* TidePredictor constructs.
Engine(op, calc, time, hindu_date, height) ==
  [op         |-> op,
   calc       |-> calc,
   time       |-> time,
   hindu_date |-> hindu_date,
   influence  |-> get_tide_influence(hindu_date),
   height     |-> height,
   tide_type  |-> determine_tide_type(calc, height, time)]

PredictTides ==
  /\ \E day \in DaysOfMonth, t \in TimesOfDay :
       LET current_time   == At(day, t)
           hindu_date     == get_current_hindu_date(current_time)
           tide_influence == get_tide_influence(hindu_date)
       IN  last' = Engine("predict", DefaultCalculator, current_time, hindu_date,
                          calculate_tide_height(DefaultCalculator, current_time,
                                                tide_influence))
  /\ UNCHANGED <<now, tide_history, alerts, active_alerts, pc, frame>>

\* calculate_tide_height on a calculator built with other parameters.
Calculators ==
  {TideCalculator(30, 20), TideCalculator(0, 20), TideCalculator(15, 40)}

CalculateTideHeight ==
  /\ \E calc \in Calculators, day \in {3, 15, 30}, t \in TimesOfDay :
       LET time       == At(day, t)
           hindu_date == get_current_hindu_date(time)
       IN  last' = Engine("height", calc, time, hindu_date,
                          calculate_tide_height(calc, time,
                                                get_tide_influence(hindu_date)))
  /\ UNCHANGED <<now, tide_history, alerts, active_alerts, pc, frame>>

NextEngine == PredictTides \/ CalculateTideHeight

SpecEngine == Init /\ [][NextEngine]_vars

\* ---------------------------------------------------- daily summaries
\* A window as predict_tides builds it with the engine above, and
\* _get_daily_summaries over it.  A timestamp is the count of minutes
\* since 00:00 of day 1 of the month the window lies in.
ToDatetime(t) == Datetime(t \div 1440 + 1, (t % 1440) \div 60, t % 60)

\* 100 * (20 + 10 * sin(2 * pi * hour / 24)) for hour = 0, ..., 23.
BaseTemp ==
  <<2000, 2259, 2500, 2707, 2866, 2966, 3000, 2966,
    2866, 2707, 2500, 2259, 2000, 1741, 1500, 1293,
    1134, 1034, 1000, 1034, 1134, 1293, 1500, 1741>>

\* What WeatherSimulator.get_weather draws: the condition, the offset
\* random.uniform(-3, 3) added to the base temperature and the wind speed
\* random.uniform(0, 15), both in hundredths.
Draw(condition, offset, wind_speed) ==
  [condition |-> condition, offset |-> offset, wind_speed |-> wind_speed]

get_weather(time, draw) ==
  [temperature |-> BaseTemp[time.hour + 1] + draw.offset,
   condition   |-> draw.condition,
   wind_speed  |-> draw.wind_speed]

\* A formatted number: the tenths written and the characters after them.
Text(number, suffix) == [number |-> number, suffix |-> suffix]

\* f"{weather.temperature:.1f}°C" (the degree sign is U+00B0).
FormatTemperature(t) == Text((t + 5) \div 10, <<"U+00B0", "C">>)

\* f"{weather.wind_speed:.1f} m/s"
FormatWindSpeed(w) == Text(FormatWind(w), <<" ", "m", "/", "s">>)

\* The least index at which sep occurs in s, 0 if it does not.
Find(s, sep) ==
  LET at == {i \in 1..(Len(s) - Len(sep) + 1) :
               SubSeq(s, i, i + Len(sep) - 1) = sep}
  IN  IF at = {} THEN 0 ELSE CHOOSE i \in at : \A j \in at : i <= j

\* text.split(sep)[0]
SplitFirst(text, sep) ==
  IF Find(text.suffix, sep) = 0 THEN text
  ELSE Text(text.number, SubSeq(text.suffix, 1, Find(text.suffix, sep) - 1))

\* text.split()[0]
SplitWhitespaceFirst(text) == SplitFirst(text, <<" ">>)

\* float(text): the number when nothing follows it, otherwise ValueError.
Float(text) ==
  IF text.suffix = << >> THEN [ok |-> TRUE, value |-> text.number]
  ELSE [ok |-> FALSE, value |-> Null]

\* The separator of line 491 as the source file has it: the two
\* characters U+00C2 U+00B0.
TemperatureSeparator == <<"U+00C2", "U+00B0">>

parse_temperature(text) == Float(SplitFirst(text, TemperatureSeparator))

parse_wind_speed(text) == Float(SplitWhitespaceFirst(text))

RECURSIVE Sum(_)
Sum(s) == IF s = << >> THEN 0 ELSE Head(s) + Sum(Tail(s))

Largest(s) == CHOOSE x \in Range(s) : \A y \in Range(s) : y <= x

Least(s) == CHOOSE x \in Range(s) : \A y \in Range(s) : x <= y

Count(s, x) == Cardinality({i \in DOMAIN s : s[i] = x})

\* max(set(conditions), key=conditions.count); among equally frequent
\* conditions the one the set yields first, here first.
primary_condition(conditions, first) ==
  LET modes == {c \in Range(conditions) :
                  \A d \in Range(conditions) :
                    Count(conditions, d) <= Count(conditions, c)}
  IN  IF first \in modes THEN first ELSE CHOOSE c \in modes : TRUE

\* _get_daily_weather_summary; a mean is rounded down to a tenth.
get_daily_weather_summary(predictions, first) ==
  LET conditions   == [k \in DOMAIN predictions |->
                         predictions[k].weather_info.condition]
      parsed       == [k \in DOMAIN predictions |->
                         parse_temperature(predictions[k].weather_info.temperature)]
      winds        == [k \in DOMAIN predictions |->
                         parse_wind_speed(predictions[k].weather_info.wind_speed)]
      temperatures == SelectSeq(parsed, LAMBDA r : r.ok)
      wind_speeds  == SelectSeq(winds, LAMBDA r : r.ok)
  IN  [primary_condition |-> primary_condition(conditions, first),
       avg_temperature   |->
         IF temperatures = << >> THEN 0
         ELSE Sum([k \in DOMAIN temperatures |-> temperatures[k].value])
              \div Len(temperatures),
       max_wind_speed    |->
         IF wind_speeds = << >> THEN 0
         ELSE Largest([k \in DOMAIN wind_speeds |-> wind_speeds[k].value])]

\* _create_daily_summary.  The heights of the engine are whole multiples
\* of 50 units; the mean is rounded down to one.
create_daily_summary(date, predictions, first) ==
  LET heights == [k \in DOMAIN predictions |-> predictions[k].height_meters]
  IN  [date            |-> date,
       max_height      |-> Largest(heights),
       min_height      |-> Least(heights),
       avg_height      |-> 50 * (Sum([k \in DOMAIN heights |-> heights[k] \div 50])
                                 \div Len(heights)),
       high_tide_count |-> Len(SelectSeq(predictions, LAMBDA p : p.tide_type = "high")),
       low_tide_count  |-> Len(SelectSeq(predictions, LAMBDA p : p.tide_type = "low")),
       hindu_date      |-> predictions[1].hindu_factors,
       weather_summary |-> get_daily_weather_summary(predictions, first)]

\* The indices at which the loop of _get_daily_summaries starts a day:
\* the first prediction and every one whose date is not the previous one's.
DayStarts(hist) ==
  {k \in DOMAIN hist :
     k = 1 \/ ToDatetime(hist[k].timestamp).day # ToDatetime(hist[k - 1].timestamp).day}

\* The predictions collected for the day started at index k.
DayOf(hist, k) ==
  LET later == {j \in DayStarts(hist) : j > k}
      stop  == IF later = {} THEN Len(hist)
               ELSE (CHOOSE j \in later : \A i \in later : j <= i) - 1
  IN  SubSeq(hist, k, stop)

\* A variant without the step that adds the last day after the loop.
daily_summaries_without_last(hist, first) ==
  LET starts == DayStarts(hist)
  IN  [i \in 1..(Cardinality(starts) - 1) |->
         LET k == CHOOSE j \in starts : Cardinality({e \in starts : e < j}) = i - 1
         IN  create_daily_summary(ToDatetime(hist[k].timestamp).day,
                                  DayOf(hist, k), first)]

\* _get_daily_summaries with the summaries it creates, in the order the
\* loop appends them.
daily_summaries(hist, first) ==
  LET starts == DayStarts(hist)
  IN  [i \in 1..Cardinality(starts) |->
         LET k == CHOOSE j \in starts : Cardinality({e \in starts : e < j}) = i - 1
         IN  create_daily_summary(ToDatetime(hist[k].timestamp).day,
                                  DayOf(hist, k), first)]

\* predict_tides(start_date, days=7) of the service: the engine's height
\* and tide type, the calendar position and the weather strings of each
\* hour; draws is the cycle of what the weather simulator draws.
EngineWindow(start_date, draws) ==
  [k \in 1..(ForecastDays * 24) |->
     LET current_time == ToDatetime(start_date + (k - 1) * 60)
         hindu_date   == get_current_hindu_date(current_time)
         weather      == get_weather(current_time, Cyc(draws, k - 1))
     IN  \* one evaluation of the height for the two fields that use it
         CHOOSE prediction \in
           { [timestamp     |-> start_date + (k - 1) * 60,
              height_meters |-> tide_height,
              tide_type     |-> determine_tide_type(DefaultCalculator, tide_height,
                                                    current_time),
              hindu_factors |-> hindu_date,
              weather_info  |-> [condition   |-> weather.condition,
                                 temperature |-> FormatTemperature(weather.temperature),
                                 wind_speed  |-> FormatWindSpeed(weather.wind_speed)]] :
             tide_height \in {calculate_tide_height(DefaultCalculator, current_time,
                                                    get_tide_influence(hindu_date))} } :
           TRUE]

WeatherDraws ==
  { <<Draw("clear", 0, 996), Draw("rainy", 250, 1206)>>,
    <<Draw("cloudy", 0 - 300, 45), Draw("cloudy", 149, 1496), Draw("rainy", 4, 700)>>,
    <<Draw("rainy", 300, 0)>> }

StartDays == {1, 12, 24}

\* _update_tide_predictions on an empty window: the window is kept as the
\* arguments of the run that made it.
UpdateTidePredictions ==
  /\ \E day \in StartDays, t \in TimesOfDay, draws \in WeatherDraws :
       last' = [op |-> "window", start_date |-> (day - 1) * 1440 + t,
                draws |-> draws]
  /\ UNCHANGED <<now, tide_history, alerts, active_alerts, pc, frame>>

\* _get_daily_summaries over the window just made.
GetDailySummaries ==
  /\ last.op = "window"
  /\ \E first \in {"clear", "cloudy", "rainy"} :
       \E hist \in {EngineWindow(last.start_date, last.draws)} :
         last' = [op |-> "daily", start_date |-> last.start_date,
                  draws |-> last.draws,
                  summaries |-> daily_summaries(hist, first)]
  /\ UNCHANGED <<now, tide_history, alerts, active_alerts, pc, frame>>

NextDaily == UpdateTidePredictions \/ GetDailySummaries

SpecDaily == Init /\ [][NextDaily]_vars

\* ------------------------------------------------------- the tide trend
\* _get_tide_trend over any list of predictions; only height_meters is
\* read.
TrendHeights == {200, 300, 350}

TrendWindows ==
  UNION { [1..n -> {[height_meters |-> h] : h \in TrendHeights}] : n \in 0..4 }

\* A variant that compares with <= and >=.
get_tide_trend_non_strict(predictions) ==
  IF Len(predictions) < 2 THEN "stable"
  ELSE LET heights == [k \in DOMAIN predictions |-> predictions[k].height_meters]
       IN  IF Len(heights) >= 3
           THEN LET recent_heights == SubSeq(heights, Len(heights) - 2, Len(heights))
                IN  IF recent_heights[1] <= recent_heights[2]
                       /\ recent_heights[2] <= recent_heights[3]
                    THEN "rising"
                    ELSE IF recent_heights[1] >= recent_heights[2]
                            /\ recent_heights[2] >= recent_heights[3]
                    THEN "falling"
                    ELSE "stable"
           ELSE "stable"

get_tide_trend(predictions) ==
  IF Len(predictions) < 2 THEN "stable"
  ELSE LET heights == [k \in DOMAIN predictions |-> predictions[k].height_meters]
       IN  IF Len(heights) >= 3
           THEN LET recent_heights == SubSeq(heights, Len(heights) - 2, Len(heights))
                IN  IF recent_heights[1] < recent_heights[2]
                       /\ recent_heights[2] < recent_heights[3]
                    THEN "rising"
                    ELSE IF recent_heights[1] > recent_heights[2]
                            /\ recent_heights[2] > recent_heights[3]
                    THEN "falling"
                    ELSE "stable"
           ELSE "stable"

GetTideTrend ==
  /\ \E predictions \in TrendWindows :
       last' = [op |-> "trend", predictions |-> predictions,
                trend |-> get_tide_trend(predictions)]
  /\ UNCHANGED <<now, tide_history, alerts, active_alerts, pc, frame>>

NextTrend == GetTideTrend

SpecTrend == Init /\ [][NextTrend]_vars

\* ---------------------------------------------------------------- claims
LiveAlerts == {active_alerts[i] : i \in DOMAIN active_alerts}

ActiveCoastalRisk ==
  {i \in DOMAIN active_alerts :
     /\ alerts[active_alerts[i]].alert_type = "COASTAL_RISK"
     /\ alerts[active_alerts[i]].is_active}

Returned(alert_type) ==
  {i \in DOMAIN last.returned : alerts[last.returned[i]].alert_type = alert_type}

AllIdle == \A t \in Threads : pc[t] = "idle"

\* C1: after any sequence of check cycles, with the clock advancing between
\* them, the live collection holds at most one alert of type COASTAL_RISK
\* whose is_active flag is set.
C1_AtMostOneActiveCoastalRisk == Cardinality(ActiveCoastalRisk) <= 1

\* A cycle at HIGH or CRITICAL risk that created no COASTAL_RISK alert
\* because an active one exists, while an earlier one has already expired.
C1_Witness ==
  /\ last.op = "check"
  /\ last.level \in {"HIGH", "CRITICAL"}
  /\ Returned("COASTAL_RISK") = {}
  /\ Cardinality(ActiveCoastalRisk) = 1
  /\ \E r \in DOMAIN alerts :
       alerts[r].alert_type = "COASTAL_RISK" /\ ~alerts[r].is_active

\* C2: the sweep runs before the new-alert checks, so a cycle at HIGH or
\* CRITICAL risk in which every existing COASTAL_RISK alert is past its
\* expiry at the deduplication test creates a new COASTAL_RISK alert.
C2_SweepBeforeNewAlertCheck ==
  ( /\ last.op = "check"
    /\ last.level \in {"HIGH", "CRITICAL"}
    /\ \A i \in DOMAIN last.pre :
         alerts[last.pre[i]].alert_type = "COASTAL_RISK"
           => alerts[last.pre[i]].expires_at < last.dedup_at )
  => Returned("COASTAL_RISK") # {}

\* C3: a read that reports active alerts (the status count, the alerts
\* endpoint, the export's active_alerts section) never counts or returns an
\* alert whose expires_at is earlier than the time of the read.
C3_ReadsNeverReportExpired ==
  last.op \in {"status", "alerts", "export"}
  => \A i \in DOMAIN last.listed : ~(alerts[last.listed[i]].expires_at < last.at)

\* C4: when two check cycles interleave, the COASTAL_RISK test-then-create
\* step is serialized: once both have returned, at most one active
\* COASTAL_RISK alert exists.
C4_TestThenCreateSerialized == AllIdle => Cardinality(ActiveCoastalRisk) <= 1

\* C5: no alert is lost under concurrency: once all invocations have
\* returned, every alert any of them returned as newly created is in the
\* live collection.
C5_NoAlertLost ==
  AllIdle => \A t \in Threads : \A i \in DOMAIN frame[t].returned :
               frame[t].returned[i] \in LiveAlerts

\* C6: tide-height alerts follow a strict priority in every check cycle:
\* above 4.0 m exactly one STORM_SURGE alert of severity CRITICAL and no
\* HIGH_TIDE alert; above 3.0 m but not above 4.0 m exactly one HIGH_TIDE
\* alert of severity HIGH and no STORM_SURGE alert; otherwise neither.
C6_TideHeightPriority ==
  last.op = "check" =>
    IF last.height > 400
    THEN /\ Cardinality(Returned("STORM_SURGE")) = 1
         /\ \A i \in Returned("STORM_SURGE") :
              alerts[last.returned[i]].severity = "CRITICAL"
         /\ Returned("HIGH_TIDE") = {}
    ELSE IF last.height > 300
    THEN /\ Cardinality(Returned("HIGH_TIDE")) = 1
         /\ \A i \in Returned("HIGH_TIDE") :
              alerts[last.returned[i]].severity = "HIGH"
         /\ Returned("STORM_SURGE") = {}
    ELSE Returned("STORM_SURGE") = {} /\ Returned("HIGH_TIDE") = {}

\* A cycle above the storm-surge threshold that created its STORM_SURGE alert.
C6_Witness ==
  /\ last.op = "check"
  /\ last.height > 400
  /\ Returned("STORM_SURGE") # {}

\* C7: a check cycle returns exactly the alerts it created, zero, one or
\* two of them: at most one tide-height alert and at most one COASTAL_RISK
\* alert, each present and active in the live collection at the return.
C7_ReturnsWhatItCreated ==
  last.op = "check" =>
    /\ Len(last.returned) <= 2
    /\ Len(last.returned) = Len(alerts) - last.heap
    /\ {last.returned[i] : i \in DOMAIN last.returned} = (last.heap + 1)..Len(alerts)
    /\ Cardinality(Returned("STORM_SURGE") \cup Returned("HIGH_TIDE")) <= 1
    /\ Cardinality(Returned("COASTAL_RISK")) <= 1
    /\ \A i \in DOMAIN last.returned :
         last.returned[i] \in LiveAlerts /\ alerts[last.returned[i]].is_active

\* A cycle that returned a tide-height alert and a COASTAL_RISK alert.
C7_Witness ==
  /\ last.op = "check"
  /\ Len(last.returned) = 2
  /\ Returned("COASTAL_RISK") # {}

\* C8: no two alerts ever created on a service instance carry the same
\* alert_id.
C8_AlertIdsUnique ==
  \A i, j \in DOMAIN alerts : i # j => alerts[i].alert_id # alerts[j].alert_id

\* C9: for every alert created, expires_at - timestamp is exactly the
\* severity-table duration: 2 h CRITICAL, 4 h HIGH, 6 h MEDIUM, 12 h other.
C9_GapIsExactlyTheTableDuration ==
  \A i \in DOMAIN alerts :
    alerts[i].expires_at - alerts[i].timestamp =
      (CASE alerts[i].severity = "CRITICAL" -> 2 * Hour
         [] alerts[i].severity = "HIGH"     -> 4 * Hour
         [] alerts[i].severity = "MEDIUM"   -> 6 * Hour
         [] OTHER                           -> 12 * Hour)

\* C10: every alert in the live collection has expires_at strictly after
\* its timestamp.
C10_ExpiresAfterTimestamp ==
  \A r \in LiveAlerts : alerts[r].expires_at > alerts[r].timestamp

\* The live collection holds alerts of both severities a cycle produces,
\* one of them built while the clock moved between its two reads.
C10_Witness ==
  /\ \E r \in LiveAlerts : alerts[r].severity = "CRITICAL"
  /\ \E r \in LiveAlerts : alerts[r].severity = "HIGH"
  /\ \E r \in LiveAlerts :
       alerts[r].expires_at - alerts[r].timestamp > ExpiresIn(alerts[r].severity)

\* C11: the sweep of a check cycle removes an alert from the live
\* collection if and only if, after the flip of that sweep, the alert is
\* inactive and its timestamp is more than 24 hours before the current
\* time; the others are kept in their order, and no unexpired alert is
\* removed.
C11_SweepRemovesExactlyOldInactive ==
  [][last'.op = "check" =>
       /\ \A r \in Range(active_alerts) :
            (r \notin Range(active_alerts'))
              <=> ( /\ ~alerts'[r].is_active
                    /\ alerts'[r].timestamp < now' - 24 * Hour )
       /\ SelectSeq(active_alerts', LAMBDA r : r \in Range(active_alerts))
            = SelectSeq(active_alerts, LAMBDA r : r \in Range(active_alerts'))
       /\ \A r \in Range(active_alerts) :
            ~(alerts[r].expires_at < now') => r \in Range(active_alerts')
    ]_vars

\* C12: the lifecycle of an alert only moves forward: is_active never
\* changes from false to true, a purged alert never re-enters the live
\* collection, and the only change any operation makes to an existing
\* alert is the sweep's flip of is_active to false on an expired alert.
C12_LifecycleOnlyMovesForward ==
  [][/\ Len(alerts') >= Len(alerts)
     /\ \A r \in DOMAIN alerts :
          /\ alerts[r].is_active \/ ~alerts'[r].is_active
          /\ r \notin Range(active_alerts) => r \notin Range(active_alerts')
          /\ alerts'[r] # alerts[r] =>
               /\ last'.op = "check"
               /\ alerts[r].expires_at < now'
               /\ alerts'[r] = [alerts[r] EXCEPT !.is_active = FALSE]
    ]_vars

\* An export taken while one alert is purged, one is inactive but still
\* listed and one is active.
C12_Witness ==
  /\ last.op = "export"
  /\ \E r \in DOMAIN alerts : ~alerts[r].is_active /\ r \notin LiveAlerts
  /\ \E r \in LiveAlerts : ~alerts[r].is_active
  /\ \E r \in LiveAlerts : alerts[r].is_active

\* C13: running the expiry sweep twice in a row with no time passing
\* leaves the live collection (membership, order, is_active flags) as the
\* first run left it.
C13_SweepIdempotent ==
  \A t \in Instants : t >= now =>
    \A once \in {cleanup_expired_alerts(Machine, t)} :
      \A twice \in {cleanup_expired_alerts(once, t)} :
        /\ twice.active_alerts = once.active_alerts
        /\ twice.alerts = once.alerts

\* A state in which a sweep flips one alert that it keeps and purges another.
C13_Witness ==
  \E t \in Instants :
    /\ t >= now
    /\ \E once \in {cleanup_expired_alerts(Machine, t)} :
         /\ \E r \in Range(once.active_alerts) :
              alerts[r].is_active /\ ~once.alerts[r].is_active
         /\ Range(once.active_alerts) # Range(active_alerts)

EveryAlertEventuallyPurged ==
  \A r \in 1..MaxAlerts :
    (r \in DOMAIN alerts)
      ~> (r \in DOMAIN alerts /\ ~alerts[r].is_active /\ r \notin LiveAlerts)

PurgedOnlyWhenOldAndInactive ==
  [][\A r \in Range(active_alerts) :
       r \notin Range(active_alerts') =>
         /\ ~alerts'[r].is_active
         /\ alerts'[r].timestamp < now' - 24 * Hour
    ]_vars

\* C14: with the clock advancing and check cycles called again and again,
\* every alert ever created is eventually inactive and eventually out of
\* the live collection, and an alert leaves the live collection only when
\* it is inactive and its timestamp is more than 24 hours old.
C14_EventuallyPurgedAndOnlyWhenOld ==
  EveryAlertEventuallyPurged /\ PurgedOnlyWhenOldAndInactive

\* C15: at every status read and check cycle made after the window was
\* populated, also more than 7 days after it, the window covers the
\* current time: the current height is not null and the following 6 hours
\* have predictions.
C15_WindowCoversNow ==
  ( /\ last.op \in {"status", "check"}
    /\ tide_history.days # 0
    /\ tide_history.start_date < last.at ) =>
    /\ last.height # Null
    /\ last.lookahead >= 6

\* C16: a forecast request for d days, d in 1..14, that does not fail
\* regenerates the window for d days from now and returns daily summaries
\* covering d days from now (d or d + 1 calendar dates, the first of them
\* today).
C16_ForecastCoversRequestedDays ==
  (last.op = "forecast" /\ last.requested \in 1..14 /\ ~last.error) =>
    /\ tide_history.start_date = last.at
    /\ tide_history.days = last.requested
    /\ Len(last.daily_summaries) \in {last.requested, last.requested + 1}
    /\ last.daily_summaries[1] = DateOf(last.at)

\* C17: a forecast request whose horizon is outside 1..14 days is
\* rejected: the caller receives an error and no forecast.
C17_OutOfRangeHorizonRejected ==
  (last.op = "forecast" /\ last.requested \notin 1..14) =>
    /\ last.error
    /\ last.daily_summaries = << >>

\* A status read and a check cycle always return a success document (lines
\* 133-150 and 397); only get_tide_forecast has an error result.
ErrorResult(l) == l.op = "forecast" /\ l.error

\* C18: when the window has never been populated and generation fails,
\* get_tide_forecast, get_current_tide_status and
\* check_and_generate_alerts return an explicit error, and the alert
\* collection is left unchanged.
C18_UnavailableForecastIsAnError ==
  (last.op \in {"forecast", "status", "check"} /\ tide_history.days = 0) =>
    /\ ErrorResult(last)
    /\ Len(alerts) = last.heap
    /\ active_alerts = last.pre

\* C19: the live risk score is the sum of the height term (+5 above 4.0 m,
\* else +3 above 3.0 m), the weather term (+4 stormy, +2 rainy), the wind
\* term (+3 above 15 m/s, else +2 above 10 m/s), +1 for a high-risk
\* calendar mansion and +1 for each of the next 6 forecast points above
\* 3.0 m; so 3.5 m, stormy, 18 m/s, a high-risk mansion and no lookahead
\* contribution score 11.
C19_LiveScoreIsTheSumOfFiveTerms ==
  last.op = "risk" =>
    last.score =
      (IF last.current = NoPrediction THEN 0
       ELSE (IF last.current.height_meters > 400 THEN 5
             ELSE IF last.current.height_meters > 300 THEN 3 ELSE 0)
            + (IF last.current.weather_info.condition = "stormy" THEN 4
               ELSE IF last.current.weather_info.condition = "rainy" THEN 2 ELSE 0)
            + (IF last.current.weather_info.wind_speed > 150 THEN 3
               ELSE IF last.current.weather_info.wind_speed > 100 THEN 2 ELSE 0)
            + (IF last.current.hindu_factors.high_risk_mansion THEN 1 ELSE 0))
      + (IF last.lookahead < 6 THEN last.lookahead ELSE 6)

LevelRank(level) ==
  CASE level = "MINIMAL"  -> 0
    [] level = "LOW"      -> 1
    [] level = "MEDIUM"   -> 2
    [] level = "HIGH"     -> 3
    [] level = "CRITICAL" -> 4

\* C20: the live risk level is a function of the score alone (8 and above
\* CRITICAL, 6-7 HIGH, 4-5 MEDIUM, 2-3 LOW, 0-1 MINIMAL), it is monotone
\* non-decreasing in the score, and the score is never negative.
C20_LevelIsMonotoneFunctionOfScore ==
  /\ last.op = "risk" =>
       /\ last.score >= 0
       /\ last.level = (CASE last.score \in 0..1 -> "MINIMAL"
                          [] last.score \in 2..3 -> "LOW"
                          [] last.score \in 4..5 -> "MEDIUM"
                          [] last.score \in 6..7 -> "HIGH"
                          [] OTHER               -> "CRITICAL")
  /\ \A a, b \in 0..(5 + 4 + 3 + 6) :
       a <= b => LevelRank(RiskLevel(a)) <= LevelRank(RiskLevel(b))

\* An assessment that scores exactly 8, the least CRITICAL score.
C20_Witness ==
  /\ last.op = "risk"
  /\ last.score = 8
  /\ last.level = "CRITICAL"

\* The score the hazard rule gives one prediction: high tide above 3.0 m
\* +3, other high tide +2; stormy +3, rainy +1; wind above 10 m/s +2;
\* high-risk mansion +1.
HazardRule(p) ==
    (IF p.tide_type = "high"
     THEN (IF p.height_meters > 300 THEN 3 ELSE 2) ELSE 0)
  + (IF p.weather_info.condition = "stormy" THEN 3
     ELSE IF p.weather_info.condition = "rainy" THEN 1 ELSE 0)
  + (IF p.weather_info # NoWeather /\ p.weather_info.wind_speed > 100
     THEN 2 ELSE 0)
  + (IF p.hindu_factors.nakshatra \in HazardMansions THEN 1 ELSE 0)

HighBucket(ps) == {k \in DOMAIN ps : HazardRule(ps[k]) >= 5}

ModerateBucket(ps) == {k \in DOMAIN ps : HazardRule(ps[k]) \in 3..4}

\* C21: the ad-hoc hazard assessment scores each prediction by its own
\* rule and puts it in exactly one bucket (high at 5 and above, moderate
\* at 3-4, otherwise none); high_risk_count and moderate_risk_count are
\* the uncapped bucket sizes and overall_risk is HIGH iff the high bucket
\* is non-empty, MODERATE iff it is empty and the moderate one is not,
\* else LOW.
C21_HazardBucketsAndCounts ==
  last.op = "hazard" =>
    /\ last.assessment.high_risk_count =
         Cardinality(HighBucket(last.predictions))
    /\ last.assessment.moderate_risk_count =
         Cardinality(ModerateBucket(last.predictions))
    /\ HighBucket(last.predictions) \cap ModerateBucket(last.predictions) = {}
    /\ \A i \in DOMAIN last.assessment.high_risk_periods :
         last.assessment.high_risk_periods[i].risk_score >= 5
    /\ \A i \in DOMAIN last.assessment.moderate_risk_periods :
         last.assessment.moderate_risk_periods[i].risk_score \in 3..4
    /\ last.assessment.overall_risk =
         (IF last.assessment.high_risk_count > 0 THEN "HIGH"
          ELSE IF last.assessment.moderate_risk_count > 0 THEN "MODERATE"
          ELSE "LOW")

\* An assessment whose high bucket holds more entries than the five listed.
C21_Witness ==
  /\ last.op = "hazard"
  /\ last.assessment.high_risk_count = 6
  /\ Len(last.assessment.high_risk_periods) = 5
  /\ last.assessment.moderate_risk_count > 0

\* C22: every height the engine computes, for every time of day and day
\* of month, is at least 0.1 m and at most 5.0 m.
C22_HeightWithinBounds ==
  last.op \in {"predict", "height"} =>
    Metre \div 10 <= last.height /\ last.height <= 5 * Metre

\* A prediction of predict_tides on day 30 (Amavasya, a strong mansion)
\* above 3.6 m.
C22_Witness ==
  /\ last.op = "predict"
  /\ last.time.day = 30
  /\ last.height > 36 * (Metre \div 10)

\* The reference height: clamp(A * strength * amplification
\* + 0.1 * sin(0.5 * hour), 0.1, 5.0) with
\* A = base_height + (amplitude / 2) * sin(2 * pi * hour_fraction / 12.42).
ReferenceHeight(calc, time, strength, amplification) ==
  LET A == calc.base_height * 10^5
           + 5 * calc.tide_range
               * SinTide[2 * time.hour + time.minute \div 30 + 1]
      multiplier == CASE strength = "strong"   -> 13
                      [] strength = "moderate" -> 11
                      [] strength = "weak"     -> 9
  IN  Max(Metre \div 10,
          Min(5 * Metre, A * multiplier * amplification
                         + 1000 * SinHour[time.hour + 1]))

\* C23: the height of a prediction equals the reference formula with the
\* configured amplitude (default 2.0, so the sine coefficient is 1.0) and
\* strength 1.3/1.1/0.9 for strong/moderate/weak; for base 1.5, strong,
\* amplification 1.0 and hour_fraction 0 the result is 1.95.
C23_HeightIsTheReferenceFormula ==
  last.op \in {"predict", "height"} =>
    /\ last.height = ReferenceHeight(last.calc, last.time,
                                     last.influence.nakshatra_tide.strength,
                                     last.influence.tithi_amplification)
    /\ (/\ last.calc.base_height = 15
        /\ last.influence.nakshatra_tide.strength = "strong"
        /\ last.influence.tithi_amplification = 10
        /\ last.time.hour = 0 /\ last.time.minute = 0)
       => last.height = 195 * (Metre \div 100)

\* C29: with the default calculator and the fixed calendar tables, for
\* every day of month and every time of day the generated height stays
\* below the storm-surge threshold 4.0 m, so a check cycle on it never
\* creates a STORM_SURGE alert nor adds the storm-surge term 5 to the live
\* score.
C29_EngineNeverReachesStormSurge ==
  last.op = "predict" =>
    /\ last.height < storm_surge_threshold * (Metre \div 100)
    /\ \A i \in DOMAIN TideHeightTriggers(Centimetres(last.height)) :
         TideHeightTriggers(Centimetres(last.height))[i][1] # "STORM_SURGE"
    /\ HeightScore(Centimetres(last.height)) # 5

\* An engine height above the high-tide threshold: the check cycle on it
\* creates a HIGH_TIDE alert.
C29_Witness ==
  /\ last.op = "predict"
  /\ TideHeightTriggers(Centimetres(last.height)) = << <<"HIGH_TIDE", "HIGH">> >>
  /\ HeightScore(Centimetres(last.height)) = 3

\* C24: predict_tides(start, days) returns exactly days * 24 predictions
\* (168 for the 7 days of the service) whose timestamps increase by
\* exactly one hour, the first one equal to start; the cached window has
\* this shape in every reachable state.
C24_WindowIsHourlyFromStart ==
  tide_history.days # 0 =>
    \E w \in {Window(tide_history)} :
      /\ Len(w) = tide_history.days * 24
      /\ Len(w) = 168
      /\ w[1].timestamp = tide_history.start_date
      /\ \A k \in 1..(Len(w) - 1) :
           w[k + 1].timestamp - w[k].timestamp = Hour

\* A window still cached a day or more after it was populated.
C24_Witness ==
  /\ tide_history.days = ForecastDays
  /\ now >= tide_history.start_date + 24 * Hour
  /\ last.op \in {"status", "check"}

\* C25: _get_daily_summaries over a 168-point hourly window returns
\* exactly 7 day-groups when the start falls in hour 0 of a day and
\* exactly 8 otherwise; the groups are in ascending date order, every
\* prediction is counted in exactly one group, and each group has
\* max_height >= avg_height >= min_height.
C25_DailyGroups ==
  last.op = "daily" =>
    /\ Len(last.summaries) =
         (IF (last.start_date % 1440) \div 60 = 0 THEN 7 ELSE 8)
    /\ \A i \in 1..(Len(last.summaries) - 1) :
         last.summaries[i].date < last.summaries[i + 1].date
    /\ \E hist \in {EngineWindow(last.start_date, last.draws)} :
         /\ \A k \in DOMAIN hist :
           Cardinality({i \in DOMAIN last.summaries :
                          /\ last.summaries[i].date = ToDatetime(hist[k].timestamp).day
                          /\ last.summaries[i].min_height <= hist[k].height_meters
                          /\ hist[k].height_meters <= last.summaries[i].max_height}) = 1
         /\ Sum([i \in DOMAIN last.summaries |-> last.summaries[i].high_tide_count])
              = Cardinality({k \in DOMAIN hist : hist[k].tide_type = "high"})
         /\ Sum([i \in DOMAIN last.summaries |-> last.summaries[i].low_tide_count])
              = Cardinality({k \in DOMAIN hist : hist[k].tide_type = "low"})
    /\ \A i \in DOMAIN last.summaries :
         /\ last.summaries[i].max_height >= last.summaries[i].avg_height
         /\ last.summaries[i].avg_height >= last.summaries[i].min_height

\* The summaries of a window that starts at 13:00: eight groups, the first
\* of them with differing heights.
C25_Witness ==
  /\ last.op = "daily"
  /\ (last.start_date % 1440) = 13 * 60
  /\ Len(last.summaries) = 8
  /\ last.summaries[1].max_height > last.summaries[1].min_height

\* The predictions of a window whose date is the given day of the month.
OfDay(hist, day) ==
  SelectSeq(hist, LAMBDA p : ToDatetime(p.timestamp).day = day)

\* C28: for a day whose predictions all carry the weather strings
\* predict_tides writes, the daily weather roll-up reports avg_temperature
\* equal to the mean of that day's temperatures and max_wind_speed equal
\* to the largest of that day's wind speeds.
C28_WeatherRollUp ==
  last.op = "daily" =>
    \E hist \in {EngineWindow(last.start_date, last.draws)} :
      \A i \in DOMAIN last.summaries :
        \E day \in {OfDay(hist, last.summaries[i].date)} :
          /\ last.summaries[i].weather_summary.avg_temperature =
               Sum([k \in DOMAIN day |-> day[k].weather_info.temperature.number])
               \div Len(day)
          /\ last.summaries[i].weather_summary.max_wind_speed =
               Largest([k \in DOMAIN day |-> day[k].weather_info.wind_speed.number])

\* The last three heights of a window of at least three predictions rise
\* strictly.
LastThreeRise(ps) ==
  /\ Len(ps) >= 3
  /\ ps[Len(ps) - 2].height_meters < ps[Len(ps) - 1].height_meters
  /\ ps[Len(ps) - 1].height_meters < ps[Len(ps)].height_meters

LastThreeFall(ps) ==
  /\ Len(ps) >= 3
  /\ ps[Len(ps) - 2].height_meters > ps[Len(ps) - 1].height_meters
  /\ ps[Len(ps) - 1].height_meters > ps[Len(ps)].height_meters

\* C27: _get_tide_trend returns 'rising' exactly when the window has at
\* least 3 predictions and its last 3 heights are strictly increasing,
\* 'falling' exactly when it has at least 3 and the last 3 are strictly
\* decreasing, and 'stable' in every other case, including windows of 0, 1
\* or 2 predictions and windows with equal adjacent heights.
C27_TrendOfLastThree ==
  last.op = "trend" =>
    /\ last.trend = "rising" <=> LastThreeRise(last.predictions)
    /\ last.trend = "falling" <=> LastThreeFall(last.predictions)
    /\ last.trend = "stable" <=>
         ~LastThreeRise(last.predictions) /\ ~LastThreeFall(last.predictions)
    /\ Len(last.predictions) <= 2 => last.trend = "stable"

\* A window of four whose first three heights fall and whose last three
\* rise.
C27_Witness ==
  /\ last.op = "trend"
  /\ Len(last.predictions) = 4
  /\ last.predictions[1].height_meters > last.predictions[2].height_meters
  /\ last.trend = "rising"

\* The alerts of the live collection whose is_active flag is set.
FlaggedActive == {r \in LiveAlerts : alerts[r].is_active}

ActiveOfType(refs, alert_type) ==
  {r \in refs : alerts[r].alert_type = alert_type /\ alerts[r].is_active}

\* C30: tide-height alerts are not deduplicated: a check cycle whose
\* current height exceeds 3.0 m adds a new HIGH_TIDE (above 4.0 m a
\* STORM_SURGE) alert whatever active alerts of that type exist, so the
\* active alerts of the type are then the earlier ones still active and
\* one more.
C30_TideHeightAlertsNotDeduplicated ==
  (last.op = "check" /\ last.height > high_tide_threshold) =>
    \E alert_type \in {IF last.height > storm_surge_threshold
                       THEN "STORM_SURGE" ELSE "HIGH_TIDE"} :
      Cardinality(ActiveOfType(LiveAlerts, alert_type))
        = Cardinality(ActiveOfType(Range(last.pre) \cap LiveAlerts, alert_type)) + 1

\* The second of two check cycles above 3.0 m inside the expiry of the
\* first: two HIGH_TIDE alerts are active at once.
C30_Witness ==
  /\ last.op = "check"
  /\ Cardinality(ActiveOfType(LiveAlerts, "HIGH_TIDE")) = 2
  /\ Cardinality(ActiveOfType(Range(last.pre), "HIGH_TIDE")) = 1

====
